---- MODULE Spec2Model ----
(***************************************************************************)
(* Model of the multi-service systemd controller (bots_control_panel):     *)
(* the service registry (app/models.py, app/crud.py), the credential       *)
(* verifier, the systemctl executor and the HTTP handlers (main.py).       *)
(*                                                                         *)
(* A request is served by a worker.  A handler's accesses to the database  *)
(* are separate statements, so the handlers of two workers that share the  *)
(* database interleave between statements; everything a handler does       *)
(* between two database statements is local and is part of one step.       *)
(***************************************************************************)
EXTENDS Integers, Sequences, FiniteSets, TLC

VARIABLES
    registry,   \* the services table: rows [id, name, api_key] in id order
    pc,         \* pc[w]: where worker w stands in its handler
    req,        \* req[w]: the request worker w serves
    seen,       \* seen[w]: what the request's database read found
    run,        \* run[w]: the executor's locals for the request
    resp        \* resp[w]: the response sent for the request

vars == <<registry, pc, req, seen, run, resp>>

----------------------------------------------------------------------------
(* Input domains *)

\* the worker processes serving requests against the same database
Workers == {"w1", "w2"}

\* service names a client may send: two well-formed ones and a malformed one
Names == {"demo.service", "web.service", "bad name"}

\* api keys a client may send in a create body
CreateKeys == {"abcdefghij", "klmnopqrst", "short"}

\* X-API-Key header values: <<>> is an absent header (None)
Headers == {<<>>, <<"">>, <<"abcdefghij">>, <<"klmnopqrst">>}

\* values of the {action} path segment
PathActions == {"start", "stop", "restart", "status", "reload"}

\* largest skip and limit of a list request
MaxSkip == 2
MaxLimit == 2

----------------------------------------------------------------------------
(* app/schemas.py *)

Whitespace == {" ", "\n", "\t", "\r"}

NameChars ==
    {"a","b","c","d","e","f","g","h","i","j","k","l","m","n","o","p","q","r",
     "s","t","u","v","w","x","y","z",
     "A","B","C","D","E","F","G","H","I","J","K","L","M","N","O","P","Q","R",
     "S","T","U","V","W","X","Y","Z",
     "0","1","2","3","4","5","6","7","8","9","_",".","-"}

NameSuffix == ".service"

\* ServiceBase.name: pattern ^[a-zA-Z0-9_.-]+\.service$
NamePattern(s) ==
    LET n == Len(s)
        k == Len(NameSuffix)
    IN  /\ n > k
        /\ SubSeq(s, n - k + 1, n) = NameSuffix
        /\ \A i \in 1..(n - k) : SubSeq(s, i, i) \in NameChars

MinKeyLength == 10

\* ServiceCreate: name matches the pattern, api_key has min_length 10
ServiceCreateValid(name, api_key) ==
    /\ NamePattern(name)
    /\ Len(api_key) >= MinKeyLength

\* schemas.Service (the read schema): id and name, the key is left out
ServiceOut(row) == [id |-> row.id, name |-> row.name]

\* schemas.ServiceResponse
ServiceResponse(service, action, success, message, details) ==
    [service |-> service, action |-> action, success |-> success,
     message |-> message, details |-> details]

\* ServiceAction: member |-> value
ServiceAction ==
    [start |-> "start", stop |-> "stop", restart |-> "restart", status |-> "status"]

\* (variant) a conversion that falls back to a member for an unknown value
ParseServiceActionLenient(s) ==
    LET ms == {m \in DOMAIN ServiceAction : ServiceAction[m] = s}
    IN  IF ms = {} THEN <<"restart">> ELSE <<CHOOSE m \in ms : TRUE>>

\* conversion of the path segment to a ServiceAction member, by value:
\* <<member>>, or <<>> when no member has that value
ParseServiceAction(s) ==
    LET ms == {m \in DOMAIN ServiceAction : ServiceAction[m] = s}
    IN  IF ms = {} THEN <<>> ELSE <<CHOOSE m \in ms : TRUE>>

----------------------------------------------------------------------------
(* app/models.py, app/crud.py *)

\* crud.get_service_by_name: <<row>> or <<>> (None)
get_service_by_name(reg, name) ==
    LET idx == {i \in 1..Len(reg) : reg[i].name = name}
    IN  IF idx = {} THEN <<>>
        ELSE <<reg[CHOOSE i \in idx : \A j \in idx : i <= j]>>

\* crud.get_service_by_api_key: <<row>> or <<>> (None)
get_service_by_api_key(reg, api_key) ==
    LET idx == {i \in 1..Len(reg) : reg[i].api_key = api_key}
    IN  IF idx = {} THEN <<>>
        ELSE <<reg[CHOOSE i \in idx : \A j \in idx : i <= j]>>

\* (variant) columns declared without unique=True: every insert is accepted
UniqueOkUnconstrained(reg, name, api_key) == TRUE

\* models.Service: name and api_key are unique columns; the insert of a row
\* that repeats either is refused by the database
UniqueOk(reg, name, api_key) ==
    \A i \in 1..Len(reg) : reg[i].name # name /\ reg[i].api_key # api_key

\* the id the database gives the next row (integer primary key)
NextId(reg) == Len(reg) + 1

\* crud.create_service: <<reg', row>> after add, commit, refresh, or <<>>
\* when the commit raises IntegrityError
create_service(reg, name, api_key) ==
    IF UniqueOk(reg, name, api_key)
    THEN LET row == [id |-> NextId(reg), name |-> name, api_key |-> api_key]
         IN  <<Append(reg, row), row>>
    ELSE <<>>

\* the rows a SELECT without ORDER BY may scan: the order of the rows is
\* left to the database
RowOrders(reg) ==
    {[i \in 1..Len(reg) |-> reg[p[i]]] : p \in Permutations(1..Len(reg))}

\* OFFSET skip LIMIT limit applied to the scanned rows
OffsetLimit(rows, skip, limit) ==
    SubSeq(rows, skip + 1, IF skip + limit < Len(rows) THEN skip + limit ELSE Len(rows))

\* crud.get_services: the results query.offset(skip).limit(limit).all() may give
get_services(reg, skip, limit) ==
    {OffsetLimit(rows, skip, limit) : rows \in RowOrders(reg)}

----------------------------------------------------------------------------
(* main.py: the credential verifier *)

\* truth value of the header parameter: None and "" are falsy
Truthy(x_api_key) == x_api_key # <<>> /\ x_api_key[1] # ""

\* (variant) the key is looked up among all services instead of being
\* compared with the named service's key
verify_any_registered_key(service_name, x_api_key, reg) ==
    IF ~Truthy(x_api_key)
    THEN [ok |-> FALSE, status |-> 401, detail |-> "Missing X-API-Key header",
          db_service |-> <<>>, compared |-> FALSE]
    ELSE LET db_service == get_service_by_name(reg, service_name)
         IN  IF db_service = <<>>
             THEN [ok |-> FALSE, status |-> 404,
                   detail |-> "Service '" \o service_name
                              \o "' not found or not managed by this API.",
                   db_service |-> <<>>, compared |-> FALSE]
             ELSE IF get_service_by_api_key(reg, x_api_key[1]) = <<>>
             THEN [ok |-> FALSE, status |-> 401,
                   detail |-> "Invalid API Key for the specified service",
                   db_service |-> <<>>, compared |-> TRUE]
             ELSE [ok |-> TRUE, status |-> 200, detail |-> "",
                   db_service |-> db_service, compared |-> TRUE]

\* (variant) the comparison of the keys is inverted (== for !=)
verify_inverted_compare(service_name, x_api_key, reg) ==
    IF ~Truthy(x_api_key)
    THEN [ok |-> FALSE, status |-> 401, detail |-> "Missing X-API-Key header",
          db_service |-> <<>>, compared |-> FALSE]
    ELSE LET db_service == get_service_by_name(reg, service_name)
         IN  IF db_service = <<>>
             THEN [ok |-> FALSE, status |-> 404,
                   detail |-> "Service '" \o service_name
                              \o "' not found or not managed by this API.",
                   db_service |-> <<>>, compared |-> FALSE]
             ELSE IF db_service[1].api_key = x_api_key[1]
             THEN [ok |-> FALSE, status |-> 401,
                   detail |-> "Invalid API Key for the specified service",
                   db_service |-> <<>>, compared |-> TRUE]
             ELSE [ok |-> TRUE, status |-> 200, detail |-> "",
                   db_service |-> db_service, compared |-> TRUE]

\* (variant) an unknown service is answered like a wrong key
verify_unknown_as_invalid(service_name, x_api_key, reg) ==
    IF ~Truthy(x_api_key)
    THEN [ok |-> FALSE, status |-> 401, detail |-> "Missing X-API-Key header",
          db_service |-> <<>>, compared |-> FALSE]
    ELSE LET db_service == get_service_by_name(reg, service_name)
         IN  IF db_service = <<>> \/ db_service[1].api_key # x_api_key[1]
             THEN [ok |-> FALSE, status |-> 401,
                   detail |-> "Invalid API Key for the specified service",
                   db_service |-> <<>>, compared |-> TRUE]
             ELSE [ok |-> TRUE, status |-> 200, detail |-> "",
                   db_service |-> db_service, compared |-> TRUE]

\* verify_api_key_for_service: the HTTPException raised (ok = FALSE) or the
\* record returned (ok = TRUE, db_service = <<row>>); compared tells whether
\* the comparison of the keys was reached
verify_api_key_for_service(service_name, x_api_key, reg) ==
    IF ~Truthy(x_api_key)
    THEN [ok |-> FALSE, status |-> 401, detail |-> "Missing X-API-Key header",
          db_service |-> <<>>, compared |-> FALSE]
    ELSE LET db_service == get_service_by_name(reg, service_name)
         IN  IF db_service = <<>>
             THEN [ok |-> FALSE, status |-> 404,
                   detail |-> "Service '" \o service_name
                              \o "' not found or not managed by this API.",
                   db_service |-> <<>>, compared |-> FALSE]
             ELSE IF db_service[1].api_key # x_api_key[1]
             THEN [ok |-> FALSE, status |-> 401,
                   detail |-> "Invalid API Key for the specified service",
                   db_service |-> <<>>, compared |-> TRUE]
             ELSE [ok |-> TRUE, status |-> 200, detail |-> "",
                   db_service |-> db_service, compared |-> TRUE]

----------------------------------------------------------------------------
(* main.py: the executor *)

RECURSIVE LStrip(_)
LStrip(s) ==
    IF Len(s) > 0 /\ SubSeq(s, 1, 1) \in Whitespace
    THEN LStrip(SubSeq(s, 2, Len(s))) ELSE s

RECURSIVE RStrip(_)
RStrip(s) ==
    IF Len(s) > 0 /\ SubSeq(s, Len(s), Len(s)) \in Whitespace
    THEN RStrip(SubSeq(s, 1, Len(s) - 1)) ELSE s

\* str.strip()
Strip(s) == RStrip(LStrip(s))

\* ' '.join(command)
RECURSIVE JoinSpace(_)
JoinSpace(words) ==
    IF Len(words) = 0 THEN ""
    ELSE IF Len(words) = 1 THEN words[1]
    ELSE words[1] \o " " \o JoinSpace(Tail(words))

\* command = ["sudo", "/bin/systemctl", action.value, service_name]
Command(action, service_name) ==
    <<"sudo", "/bin/systemctl", ServiceAction[action], service_name>>

\* what subprocess.run(command, ..., timeout=30) can do: the child runs to
\* completion (CompletedProcess), or an exception is raised
Completed(returncode, stdout, stderr) ==
    [kind |-> "CompletedProcess", returncode |-> returncode,
     stdout |-> stdout, stderr |-> stderr, text |-> ""]

Raised(kind, text) ==
    [kind |-> kind, returncode |-> 0 - 1, stdout |-> "", stderr |-> "", text |-> text]

\* the child's possible ends
ProcessResults ==
    {Completed(0, "active (running)\n", ""),
     Completed(3, "inactive (dead)\n", ""),
     Completed(5, "", "Unit could not be found.\n")}

\* exceptions raised before any child runs
SpawnErrors ==
    {Raised("FileNotFoundError", "[Errno 2] No such file or directory: 'sudo'"),
     Raised("PermissionError", "[Errno 13] Permission denied: 'sudo'")}

TimeoutExpired == Raised("TimeoutExpired", "timed out after 30 seconds")

\* the classes `except Exception` catches
ExceptionClasses == {"FileNotFoundError", "PermissionError", "TimeoutExpired"}

\* (variant) _run_systemctl_command without the final `except Exception`
run_systemctl_command_uncaught(action, service_name, outcome) ==
    LET command == Command(action, service_name)
        value == ServiceAction[action]
        Returned(success, message, details) ==
            [raised |-> FALSE, error |-> "",
             value |-> ServiceResponse(service_name, value, success, message, details)]
    IN  IF outcome.kind = "CompletedProcess"
        THEN LET details == "STDOUT:\n" \o Strip(outcome.stdout)
                            \o "\nSTDERR:\n" \o Strip(outcome.stderr)
             IN  IF outcome.returncode = 0
                 THEN Returned(TRUE,
                               "Service '" \o service_name \o "' action '" \o value
                               \o "' executed successfully.",
                               details)
                 ELSE Returned(FALSE,
                               "Failed to execute '" \o value \o "' on service '"
                               \o service_name \o "'. Return code: "
                               \o ToString(outcome.returncode) \o ".",
                               details)
        ELSE IF outcome.kind = "FileNotFoundError"
        THEN Returned(FALSE,
                      "Server configuration error: 'sudo' or 'systemctl' command not found.",
                      "Ensure sudo and systemctl are installed and in the PATH for the user running the FastAPI app.")
        ELSE IF outcome.kind = "TimeoutExpired"
        THEN Returned(FALSE,
                      "Command '" \o JoinSpace(command) \o "' timed out after 30 seconds.",
                      "The service might be unresponsive or the command took too long.")
        ELSE [raised |-> TRUE, error |-> outcome.kind,
              value |-> ServiceResponse(service_name, value, FALSE, "", "")]

\* _run_systemctl_command, given what subprocess.run did: the ServiceResponse
\* returned (raised = FALSE) or the exception that leaves the function
\* (raised = TRUE)
run_systemctl_command(action, service_name, outcome) ==
    LET command == Command(action, service_name)
        value == ServiceAction[action]
        Returned(success, message, details) ==
            [raised |-> FALSE, error |-> "",
             value |-> ServiceResponse(service_name, value, success, message, details)]
    IN  IF outcome.kind = "CompletedProcess"
        THEN LET details == "STDOUT:\n" \o Strip(outcome.stdout)
                            \o "\nSTDERR:\n" \o Strip(outcome.stderr)
             IN  IF outcome.returncode = 0
                 THEN Returned(TRUE,
                               "Service '" \o service_name \o "' action '" \o value
                               \o "' executed successfully.",
                               details)
                 ELSE Returned(FALSE,
                               "Failed to execute '" \o value \o "' on service '"
                               \o service_name \o "'. Return code: "
                               \o ToString(outcome.returncode) \o ".",
                               details)
        ELSE IF outcome.kind = "FileNotFoundError"
        THEN Returned(FALSE,
                      "Server configuration error: 'sudo' or 'systemctl' command not found.",
                      "Ensure sudo and systemctl are installed and in the PATH for the user running the FastAPI app.")
        ELSE IF outcome.kind = "TimeoutExpired"
        THEN Returned(FALSE,
                      "Command '" \o JoinSpace(command) \o "' timed out after 30 seconds.",
                      "The service might be unresponsive or the command took too long.")
        ELSE IF outcome.kind \in ExceptionClasses
        THEN Returned(FALSE,
                      "An unexpected error occurred while running the command: "
                      \o outcome.text,
                      outcome.text)
        ELSE [raised |-> TRUE, error |-> outcome.kind,
              value |-> ServiceResponse(service_name, value, FALSE, "", "")]

----------------------------------------------------------------------------
(* The state of a worker *)

NoReq == [kind |-> "none", name |-> "", key |-> <<>>, action |-> "",
          skip |-> 0, limit |-> 0]

NoRun == [verified |-> FALSE, compared |-> FALSE, db_service |-> <<>>,
          invoked |-> 0, command |-> <<>>, child |-> FALSE, outcome |-> <<>>,
          result |-> <<>>]

\* a response: the status and, by the kind of its body, the detail of an
\* error, the ServiceResponse, the created service or the listed services
NoResp == [status |-> 0, detail |-> "", result |-> <<>>, service |-> <<>>,
           services |-> <<>>]

\* an HTTPException(status_code, detail), as the framework answers it
HTTPError(status, detail) == [NoResp EXCEPT !.status = status, !.detail = detail]

\* response_model=schemas.ServiceResponse, status 200
ResultResponse(r) == [NoResp EXCEPT !.status = 200, !.result = <<r>>]

\* response_model=schemas.Service, status_code=201
CreatedResponse(row) == [NoResp EXCEPT !.status = 201, !.service = <<ServiceOut(row)>>]

\* response_model=list[schemas.Service], status 200
ListResponse(rows) ==
    [NoResp EXCEPT !.status = 200,
                   !.services = <<[i \in 1..Len(rows) |-> ServiceOut(rows[i])]>>]

\* (variant) a failed command answered with a server error status
HandlerResponseOutOfBand(r) ==
    IF r.raised \/ ~r.value.success THEN HTTPError(500, "Internal Server Error")
    ELSE ResultResponse(r.value)

\* control_service_api returns what _run_systemctl_command returns (200 with
\* the ServiceResponse as body); an exception leaving it is answered 500
HandlerResponse(r) ==
    IF r.raised THEN HTTPError(500, "Internal Server Error")
    ELSE ResultResponse(r.value)

\* a worker takes a new request when it serves none
Free(w) == pc[w] = "idle"

Init ==
    /\ registry = <<>>
    /\ pc = [w \in Workers |-> "idle"]
    /\ req = [w \in Workers |-> NoReq]
    /\ seen = [w \in Workers |-> <<>>]
    /\ run = [w \in Workers |-> NoRun]
    /\ resp = [w \in Workers |-> NoResp]

----------------------------------------------------------------------------
(* POST /admin/services/ : create_new_service *)

\* the request arrives and its body is validated as a ServiceCreate
CreateRequest(w) ==
    \E name \in Names, api_key \in CreateKeys :
        /\ Free(w)
        /\ req' = [req EXCEPT ![w] = [NoReq EXCEPT !.kind = "create",
                                      !.name = name, !.key = <<api_key>>]]
        /\ seen' = [seen EXCEPT ![w] = <<>>]
        /\ run' = [run EXCEPT ![w] = NoRun]
        /\ IF ServiceCreateValid(name, api_key)
           THEN /\ pc' = [pc EXCEPT ![w] = "lookup_name"]
                /\ resp' = [resp EXCEPT ![w] = NoResp]
           ELSE /\ pc' = [pc EXCEPT ![w] = "done"]
                /\ resp' = [resp EXCEPT ![w] = HTTPError(422, "validation error")]
        /\ UNCHANGED registry

\* db_service = crud.get_service_by_name(db, name=service.name)
CreateLookupName(w) ==
    /\ pc[w] = "lookup_name"
    /\ IF get_service_by_name(registry, req[w].name) # <<>>
       THEN /\ pc' = [pc EXCEPT ![w] = "done"]
            /\ resp' = [resp EXCEPT ![w] =
                  HTTPError(400, "Service '" \o req[w].name \o "' already registered.")]
       ELSE /\ pc' = [pc EXCEPT ![w] = "lookup_key"]
            /\ UNCHANGED resp
    /\ UNCHANGED <<registry, req, seen, run>>

\* db_api_key = crud.get_service_by_api_key(db, api_key=service.api_key)
CreateLookupKey(w) ==
    /\ pc[w] = "lookup_key"
    /\ IF get_service_by_api_key(registry, req[w].key[1]) # <<>>
       THEN /\ pc' = [pc EXCEPT ![w] = "done"]
            /\ resp' = [resp EXCEPT ![w] = HTTPError(400, "API key already in use.")]
       ELSE /\ pc' = [pc EXCEPT ![w] = "insert"]
            /\ UNCHANGED resp
    /\ UNCHANGED <<registry, req, seen, run>>

\* new_service = crud.create_service(db=db, service=service); an IntegrityError
\* is not handled and the framework answers 500
CreateInsert(w) ==
    /\ pc[w] = "insert"
    /\ LET created == create_service(registry, req[w].name, req[w].key[1])
       IN  IF created # <<>>
           THEN /\ registry' = created[1]
                /\ resp' = [resp EXCEPT ![w] = CreatedResponse(created[2])]
           ELSE /\ UNCHANGED registry
                /\ resp' = [resp EXCEPT ![w] = HTTPError(500, "Internal Server Error")]
    /\ pc' = [pc EXCEPT ![w] = "done"]
    /\ UNCHANGED <<req, seen, run>>

----------------------------------------------------------------------------
(* GET /admin/services/ : list_managed_services *)

ListServices(w) ==
    \E skip \in 0..MaxSkip, limit \in 0..MaxLimit :
        \E rows \in get_services(registry, skip, limit) :
            /\ Free(w)
            /\ req' = [req EXCEPT ![w] = [NoReq EXCEPT !.kind = "list",
                                          !.skip = skip, !.limit = limit]]
            /\ seen' = [seen EXCEPT ![w] = registry]
            /\ run' = [run EXCEPT ![w] = NoRun]
            /\ resp' = [resp EXCEPT ![w] = ListResponse(rows)]
            /\ pc' = [pc EXCEPT ![w] = "done"]
            /\ UNCHANGED registry

----------------------------------------------------------------------------
(* POST /api/services/{service_name}/{action} : control_service_api *)

\* The framework solves the handler's dependency (verify_api_key_for_service)
\* first; an HTTPException it raises is the response.  Then it converts the
\* {action} path value to a ServiceAction and answers 422 when that fails.
\* Then the handler runs: _run_systemctl_command(action, db_service.name),
\* where subprocess.run either raises before a child runs or starts the child.
ControlRequest(w) ==
    \E service_name \in Names, x_api_key \in Headers, path_action \in PathActions :
        LET v == verify_api_key_for_service(service_name, x_api_key, registry)
            action == ParseServiceAction(path_action)
            checked == [NoRun EXCEPT !.verified = v.ok, !.compared = v.compared,
                                     !.db_service = v.db_service]
        IN  /\ Free(w)
            /\ req' = [req EXCEPT ![w] = [NoReq EXCEPT !.kind = "control",
                                          !.name = service_name, !.key = x_api_key,
                                          !.action = path_action]]
            /\ seen' = [seen EXCEPT ![w] = get_service_by_name(registry, service_name)]
            /\ IF ~v.ok
               THEN /\ run' = [run EXCEPT ![w] = checked]
                    /\ resp' = [resp EXCEPT ![w] = HTTPError(v.status, v.detail)]
                    /\ pc' = [pc EXCEPT ![w] = "done"]
               ELSE IF action = <<>>
               THEN /\ run' = [run EXCEPT ![w] = checked]
                    /\ resp' = [resp EXCEPT ![w] = HTTPError(422, "validation error")]
                    /\ pc' = [pc EXCEPT ![w] = "done"]
               ELSE LET invoked == [checked EXCEPT
                                      !.invoked = @ + 1,
                                      !.command = Command(action[1], v.db_service[1].name)]
                    IN  \/ /\ run' = [run EXCEPT ![w] = [invoked EXCEPT !.child = TRUE]]
                           /\ resp' = [resp EXCEPT ![w] = NoResp]
                           /\ pc' = [pc EXCEPT ![w] = "waiting"]
                        \/ \E e \in SpawnErrors :
                           LET r == run_systemctl_command(
                                        action[1], v.db_service[1].name, e)
                           IN  /\ run' = [run EXCEPT ![w] =
                                     [invoked EXCEPT !.outcome = <<e>>, !.result = <<r>>]]
                               /\ resp' = [resp EXCEPT ![w] = HandlerResponse(r)]
                               /\ pc' = [pc EXCEPT ![w] = "done"]
            /\ UNCHANGED registry

\* _run_systemctl_command(action, db_service.name) once subprocess.run has
\* ended with outcome
Executed(w, outcome) ==
    run_systemctl_command(ParseServiceAction(req[w].action)[1],
                          run[w].db_service[1].name, outcome)

\* the child ends within the timeout
ChildExit(w) ==
    \E outcome \in ProcessResults :
        /\ pc[w] = "waiting"
        /\ run' = [run EXCEPT ![w].child = FALSE, ![w].outcome = <<outcome>>,
                              ![w].result = <<Executed(w, outcome)>>]
        /\ resp' = [resp EXCEPT ![w] = HandlerResponse(Executed(w, outcome))]
        /\ pc' = [pc EXCEPT ![w] = "done"]
        /\ UNCHANGED <<registry, req, seen>>

\* the 30 seconds pass while the child still runs
TimeoutExpire(w) ==
    /\ pc[w] = "waiting"
    /\ pc' = [pc EXCEPT ![w] = "timeout"]
    /\ UNCHANGED <<registry, req, seen, run, resp>>

\* (variant) TimeoutExpired raised without killing the child
KillChildLeftRunning(w) ==
    /\ pc[w] = "timeout"
    /\ run' = [run EXCEPT ![w].outcome = <<TimeoutExpired>>,
                          ![w].result = <<Executed(w, TimeoutExpired)>>]
    /\ resp' = [resp EXCEPT ![w] = HandlerResponse(Executed(w, TimeoutExpired))]
    /\ pc' = [pc EXCEPT ![w] = "done"]
    /\ UNCHANGED <<registry, req, seen>>

\* subprocess.run kills the child, waits for it and raises TimeoutExpired,
\* which _run_systemctl_command catches
KillChild(w) ==
    /\ pc[w] = "timeout"
    /\ run' = [run EXCEPT ![w].child = FALSE, ![w].outcome = <<TimeoutExpired>>,
                          ![w].result = <<Executed(w, TimeoutExpired)>>]
    /\ resp' = [resp EXCEPT ![w] = HandlerResponse(Executed(w, TimeoutExpired))]
    /\ pc' = [pc EXCEPT ![w] = "done"]
    /\ UNCHANGED <<registry, req, seen>>

----------------------------------------------------------------------------

\* the response is sent and the request's session is closed (get_db's finally)
Finish(w) ==
    /\ pc[w] = "done"
    /\ pc' = [pc EXCEPT ![w] = "idle"]
    /\ req' = [req EXCEPT ![w] = NoReq]
    /\ seen' = [seen EXCEPT ![w] = <<>>]
    /\ run' = [run EXCEPT ![w] = NoRun]
    /\ resp' = [resp EXCEPT ![w] = NoResp]
    /\ UNCHANGED registry

Next ==
    \E w \in Workers :
        \/ CreateRequest(w)
        \/ CreateLookupName(w)
        \/ CreateLookupKey(w)
        \/ CreateInsert(w)
        \/ ListServices(w)
        \/ ControlRequest(w)
        \/ ChildExit(w)
        \/ TimeoutExpire(w)
        \/ KillChild(w)
        \/ Finish(w)

Spec == Init /\ [][Next]_vars

\* the scheduling the code gives: once the timeout has expired, subprocess.run
\* goes on to kill the child, wait for it and raise
FairSpec ==
    /\ Spec
    /\ \A w \in Workers : WF_vars(KillChild(w))

----------------------------------------------------------------------------
(* Properties *)

Done(w) == pc[w] = "done"

\* the request of worker w is a control request whose verification has run
Controlled(w) == req[w].kind = "control" /\ pc[w] # "idle"

\* the request of worker w is a create request with a valid body, answered
Created(w) ==
    /\ req[w].kind = "create" /\ Done(w)
    /\ ServiceCreateValid(req[w].name, req[w].key[1])

\* the action values the interface accepts
AcceptedActions == {"start", "stop", "restart", "status"}

ClientError(status) == status >= 400 /\ status <= 499

MissingDetail == "Missing X-API-Key header"
InvalidDetail == "Invalid API Key for the specified service"

\* C1: a systemctl process is invoked for a service only by a control request
\* whose X-API-Key is non-empty and equal to the api_key of the registry
\* record whose name is the request's service name; the command names that
\* service.
C1_InvokedOnlyWithTheServicesKey ==
    \A w \in Workers :
        run[w].invoked > 0 =>
            /\ req[w].kind = "control"
            /\ req[w].key # <<>>
            /\ req[w].key[1] # ""
            /\ \E i \in 1..Len(registry) : registry[i].name = req[w].name
            /\ \A i \in 1..Len(registry) :
                   registry[i].name = req[w].name =>
                       /\ registry[i].api_key = req[w].key[1]
                       /\ run[w].command[4] = registry[i].name

\* a process was invoked while a request for the same service that carried
\* another registered service's key was refused
C1_Witness ==
    \E w1, w2 \in Workers :
        /\ run[w1].invoked > 0
        /\ Controlled(w2) /\ Done(w2) /\ req[w2].name = req[w1].name
        /\ req[w2].key # req[w1].key /\ Truthy(req[w2].key)
        /\ get_service_by_api_key(registry, req[w2].key[1]) # <<>>
        /\ resp[w2].status = 401 /\ run[w2].invoked = 0

\* C2: the registry holds at most one record per name and at most one per
\* api_key, and a step never changes or removes a record.
UniqueRecords ==
    \A i, j \in 1..Len(registry) :
        (registry[i].name = registry[j].name \/ registry[i].api_key = registry[j].api_key)
            => i = j

OnlyGrows ==
    /\ Len(registry') >= Len(registry)
    /\ \A i \in 1..Len(registry) : registry'[i] = registry[i]

C2_UniqueAndOnlyGrows == [](UniqueRecords) /\ [][OnlyGrows]_vars

\* two records are registered and a create that passed both lookups was
\* refused by the database
C2_Witness ==
    /\ Len(registry) = 2
    /\ \E w \in Workers : Created(w) /\ resp[w].status = 500

\* C3: of two answered create requests with the same name, or the same key,
\* of which one was answered 201, the other was answered 400.
C3_ConflictAnswered400 ==
    \A w1, w2 \in Workers :
        ( /\ w1 # w2 /\ Created(w1) /\ Created(w2)
          /\ (req[w1].name = req[w2].name \/ req[w1].key = req[w2].key)
          /\ resp[w1].status = 201 )
            => resp[w2].status = 400

\* C4 as stated: for a registered service and any presented key other than
\* its api_key (empty and absent included) verification fails with 401
\* 'Invalid API Key for the specified service'.
C4_AnyOtherKeyInvalidCredential ==
    \A w \in Workers :
        ( /\ Controlled(w) /\ seen[w] # <<>>
          /\ req[w].key # <<seen[w][1].api_key>> )
            => /\ resp[w].status = 401
               /\ resp[w].detail = InvalidDetail
               /\ ~run[w].verified

\* C4 amended: for a registered service, a non-empty key other than its
\* api_key fails with 401 'Invalid API Key for the specified service', an
\* empty or absent key fails with 401 'Missing X-API-Key header'; no record
\* is returned and no process is invoked in either case.
C4_WrongKeyRejected ==
    \A w \in Workers :
        ( /\ Controlled(w) /\ seen[w] # <<>>
          /\ req[w].key # <<seen[w][1].api_key>> )
            => /\ resp[w].status = 401
               /\ resp[w].detail =
                      (IF Truthy(req[w].key) THEN InvalidDetail ELSE MissingDetail)
               /\ run[w].compared = Truthy(req[w].key)
               /\ ~run[w].verified /\ run[w].db_service = <<>>
               /\ run[w].invoked = 0

\* a registered service was asked for with a non-empty wrong key
C4_Witness ==
    \E w \in Workers :
        /\ Controlled(w) /\ seen[w] # <<>> /\ Truthy(req[w].key)
        /\ req[w].key[1] # seen[w][1].api_key
        /\ resp[w].status = 401 /\ resp[w].detail = InvalidDetail

\* C5 as stated: for a name without a registry record and any presented key
\* (empty and absent included) verification fails with 404 and the key
\* comparison is not reached.
C5_UnknownServiceAlways404 ==
    \A w \in Workers :
        (Controlled(w) /\ seen[w] = <<>>)
            => resp[w].status = 404 /\ ~run[w].compared

\* C5 amended: for a name without a registry record, a non-empty key fails
\* with 404, an empty or absent key fails with 401 'Missing X-API-Key header';
\* the key comparison is reached in neither case.
C5_UnknownServiceRejected ==
    \A w \in Workers :
        (Controlled(w) /\ seen[w] = <<>>)
            => /\ ~run[w].compared /\ ~run[w].verified /\ run[w].invoked = 0
               /\ IF Truthy(req[w].key)
                  THEN /\ resp[w].status = 404
                       /\ resp[w].detail =
                              "Service '" \o req[w].name
                              \o "' not found or not managed by this API."
                  ELSE /\ resp[w].status = 401
                       /\ resp[w].detail = MissingDetail

\* an unregistered name was asked for with a key that is registered for
\* another service
C5_Witness ==
    \E w \in Workers :
        /\ Controlled(w) /\ seen[w] = <<>> /\ Truthy(req[w].key)
        /\ get_service_by_api_key(registry, req[w].key[1]) # <<>>
        /\ resp[w].status = 404

\* the body is a ServiceResponse
IsActionResult(body) ==
    /\ DOMAIN body = {"service", "action", "success", "message", "details"}
    /\ body.success \in BOOLEAN

\* C6 as stated: a control request whose verification passed invokes the
\* executor exactly once and is answered 200 with an ActionResult, whatever
\* its success flag; a request answered 4xx invoked no process; no executor
\* failure is answered with another status than 200.
C6_VerifiedAlwaysExecuted ==
    \A w \in Workers :
        Controlled(w) =>
            /\ run[w].invoked <= 1
            /\ (run[w].verified /\ Done(w)) =>
                   /\ run[w].invoked = 1
                   /\ resp[w].status = 200
                   /\ resp[w].result # <<>>
                   /\ IsActionResult(resp[w].result[1])
            /\ ClientError(resp[w].status) => run[w].invoked = 0
            /\ (run[w].invoked > 0 /\ Done(w)) => resp[w].status = 200

\* C6 amended: a control request whose verification passed and whose action
\* is one of start, stop, restart, status invokes the executor exactly once
\* and is answered 200 with an ActionResult, whatever its success flag; with
\* any other action value it is answered 422 and invokes nothing; a request
\* answered 4xx invoked no process; no executor failure is answered with
\* another status than 200.
C6_VerifiedAcceptedExecuted ==
    \A w \in Workers :
        Controlled(w) =>
            /\ run[w].invoked <= 1
            /\ (run[w].verified /\ Done(w) /\ req[w].action \in AcceptedActions) =>
                   /\ run[w].invoked = 1
                   /\ resp[w].status = 200
                   /\ resp[w].result # <<>>
                   /\ IsActionResult(resp[w].result[1])
            /\ (run[w].verified /\ req[w].action \notin AcceptedActions) =>
                   /\ run[w].invoked = 0
                   /\ resp[w].status = 422
            /\ ClientError(resp[w].status) => run[w].invoked = 0
            /\ (run[w].invoked > 0 /\ Done(w)) => resp[w].status = 200

\* a verified request whose command failed was answered 200 with
\* success = FALSE
C6_Witness ==
    \E w \in Workers :
        /\ Controlled(w) /\ Done(w) /\ run[w].verified /\ run[w].invoked = 1
        /\ run[w].outcome # <<>> /\ run[w].outcome[1].kind = "CompletedProcess"
        /\ run[w].outcome[1].returncode # 0
        /\ resp[w].status = 200 /\ ~resp[w].result[1].success

\* C7: _run_systemctl_command returns a ServiceResponse and does not raise,
\* whatever subprocess.run did; the result echoes the service name and the
\* action, and success holds exactly when the process ran to completion
\* with exit code 0.
C7_ExecutorAlwaysReturns ==
    \A w \in Workers :
        run[w].outcome # <<>> =>
            /\ run[w].result # <<>>
            /\ ~run[w].result[1].raised
            /\ IsActionResult(run[w].result[1].value)
            /\ run[w].result[1].value.service = run[w].command[4]
            /\ run[w].result[1].value.service = req[w].name
            /\ run[w].result[1].value.action = req[w].action
            /\ run[w].result[1].value.success =
                   (/\ run[w].outcome[1].kind = "CompletedProcess"
                    /\ run[w].outcome[1].returncode = 0)

\* the executor returned after an exception that is neither FileNotFoundError
\* nor TimeoutExpired
C7_Witness ==
    \E w \in Workers :
        /\ run[w].outcome # <<>> /\ run[w].outcome[1].kind = "PermissionError"
        /\ run[w].result # <<>> /\ ~run[w].result[1].raised
        /\ ~run[w].result[1].value.success

\* C8: a request whose action is not one of start, stop, restart, status is
\* answered with a client error and invokes nothing, whatever its name and
\* key; the command invoked for an accepted action is
\* <<sudo, /bin/systemctl, action, name>> with the action unchanged and the
\* registered service's name.
C8_ActionRejectedOrUnchanged ==
    \A w \in Workers :
        Controlled(w) =>
            /\ req[w].action \notin AcceptedActions =>
                   /\ run[w].invoked = 0
                   /\ run[w].command = <<>>
                   /\ Done(w)
                   /\ ClientError(resp[w].status)
            /\ run[w].invoked > 0 =>
                   /\ run[w].command =
                          <<"sudo", "/bin/systemctl", req[w].action, req[w].name>>
                   /\ get_service_by_name(registry, run[w].command[4]) # <<>>

\* a request with the right key and an action outside the enumeration was
\* refused, and one with an accepted action was executed
C8_Witness ==
    \E w1, w2 \in Workers :
        /\ Controlled(w1) /\ Done(w1) /\ run[w1].verified
        /\ req[w1].action = "reload" /\ resp[w1].status = 422
        /\ Controlled(w2) /\ run[w2].invoked = 1 /\ req[w2].action = "restart"

\* the page of the id-ordered registry: the records after the first skip,
\* at most limit of them, as the read schema shows them
Page(reg, skip, limit) ==
    [i \in 1..(IF Len(reg) - skip < limit
               THEN (IF Len(reg) - skip < 0 THEN 0 ELSE Len(reg) - skip)
               ELSE limit) |-> ServiceOut(reg[skip + i])]

\* C9: a list request returns the records in id order, the sub-sequence of
\* the id-ordered registry after the first skip records with at most limit
\* elements; the same request on the same registry returns the same sequence.
C9_ListInIdOrder ==
    /\ \A w \in Workers :
           (req[w].kind = "list" /\ Done(w)) =>
               resp[w].services = <<Page(seen[w], req[w].skip, req[w].limit)>>
    /\ \A w1, w2 \in Workers :
           ( /\ req[w1].kind = "list" /\ Done(w1)
             /\ req[w2].kind = "list" /\ Done(w2)
             /\ seen[w1] = seen[w2] /\ req[w1] = req[w2] )
               => resp[w1].services = resp[w2].services

\* the result of a timed-out invocation: success = FALSE, the message
\* reports the timeout
TimeoutReported(w) ==
    /\ Done(w)
    /\ run[w].outcome = <<TimeoutExpired>>
    /\ resp[w].status = 200
    /\ ~resp[w].result[1].success
    /\ resp[w].result[1].message =
           "Command 'sudo /bin/systemctl " \o req[w].action \o " " \o req[w].name
           \o "' timed out after 30 seconds."

====
